---- MODULE Spec2Model ----
(***************************************************************************)
(* Pathify AI backend (src/main.py): the career-matching scoring engine    *)
(* score_careers over CAREER_LIBRARY, the roadmap selector                 *)
(* generate_roadmap and the template upsert upsert_template.               *)
(*                                                                         *)
(* Strings that the code lowercases (interest tags, skill names) are       *)
(* sequences of one-character strings, so that str.lower() is computed     *)
(* character by character.  Strings that are only compared or copied       *)
(* (career names, reasons, summaries, stage labels) are TLA+ strings.      *)
(***************************************************************************)
EXTENDS Integers, Sequences, FiniteSets, TLC

\* Bounds of the explored inputs.
MaxSkills == 2
MaxAnswers == 3
MaxHashSeed == 1

VARIABLES
    CAREER_LIBRARY,  \* the module-level catalog dict, in insertion order
    db,              \* database handle: NoDb, or the careertemplate collection
    hashSeed,        \* this process's string-hash seed (fixes set iteration order)
    payload,         \* the AssessmentSubmission handed to score_careers
    lastOp,          \* which operation produced `response`
    request,         \* the argument of the last roadmap / upsert call
    response,        \* what the last operation returned (or the error it raised)
    upserted         \* history: career -> the template last written by upsert_template

vars == <<CAREER_LIBRARY, db, hashSeed, payload, lastOp, request, response, upserted>>

------------------------------------------------------------------------------
\* Python values

None == "None"

Ok(body) == [status |-> "ok", body |-> body, error |-> ""]

Raise(exc) == [status |-> "error", body |-> <<>>, error |-> exc]

NoResponse == [status |-> "none", body |-> <<>>, error |-> ""]

UpperCase == <<"A","B","C","D","E","F","G","H","I","J","K","L","M",
               "N","O","P","Q","R","S","T","U","V","W","X","Y","Z">>

LowerCase == <<"a","b","c","d","e","f","g","h","i","j","k","l","m",
               "n","o","p","q","r","s","t","u","v","w","x","y","z">>

LowerOf == [c \in {UpperCase[i] : i \in 1..26} |->
               LowerCase[CHOOSE i \in 1..26 : UpperCase[i] = c]]

\* str.lower() on one character: A-Z map to a-z, everything else is kept.
LowerChar(c) == IF c \in DOMAIN LowerOf THEN LowerOf[c] ELSE c

\* str.lower()
lower(s) == [i \in 1..Len(s) |-> LowerChar(s[i])]

\* set([s.lower() for s in xs])
LowerSet(xs) == {lower(xs[i]) : i \in 1..Len(xs)}

Max(a, b) == IF a >= b THEN a ELSE b

Min(a, b) == IF a <= b THEN a ELSE b

\* A Python int.  The integers of a submission are unbounded, while a float holds
\* magnitudes up to about 1.8e308 only; [small |-> s, huge |-> h] is the integer
\* s + h * 10**400, with s a small integer and h >= 0.
PyInt(x) == [small |-> x, huge |-> 0]

\* the integer 10**400
TenPow400 == [small |-> 0, huge |-> 1]

\* a list of small integers
Ints(xs) == [i \in 1..Len(xs) |-> PyInt(xs[i])]

RECURSIVE Sum(_)
\* sum(xs)
Sum(xs) ==
    IF xs = <<>> THEN PyInt(0)
    ELSE LET rest == Sum(Tail(xs))
         IN  [small |-> Head(xs).small + rest.small, huge |-> Head(xs).huge + rest.huge]

\* xs[:n]
Take(xs, n) == SubSeq(xs, 1, Min(n, Len(xs)))

\* dict.get(key, default)
Get(d, key, default) == IF key \in DOMAIN d THEN d[key] ELSE default

------------------------------------------------------------------------------
\* Set iteration order.  list(set_of_str) enumerates the set in hash-table order,
\* which depends on the process's string-hash seed and on the insertion history;
\* the language fixes no order.  The seed selects one permutation of the
\* distinct elements (taken in insertion order).

HashSeeds == 0..MaxHashSeed

RECURSIVE Dedup(_)
Dedup(xs) ==
    IF xs = <<>> THEN <<>>
    ELSE LET front == SubSeq(xs, 1, Len(xs) - 1)
             last  == xs[Len(xs)]
         IN  IF \E i \in 1..Len(front) : front[i] = last
             THEN Dedup(front)
             ELSE Append(Dedup(front), last)

RemoveAt(xs, i) == SubSeq(xs, 1, i - 1) \o SubSeq(xs, i + 1, Len(xs))

RECURSIVE NthPermutation(_, _)
NthPermutation(xs, n) ==
    IF xs = <<>> THEN <<>>
    ELSE LET i == (n % Len(xs)) + 1
         IN  <<xs[i]>> \o NthPermutation(RemoveAt(xs, i), n \div Len(xs))

\* list(set([s.lower() for s in xs])) in a process whose hash seed is `seed`
ListOfLowerSet(xs, seed) ==
    NthPermutation(Dedup([i \in 1..Len(xs) |-> lower(xs[i])]), seed)

------------------------------------------------------------------------------
\* The catalog (src/main.py:150-171), a dict in insertion order.

CareerLibraryDef == <<
    [career |-> "Software Engineer",
     skills |-> <<
        <<"D","a","t","a"," ","S","t","r","u","c","t","u","r","e","s">>,
        <<"A","l","g","o","r","i","t","h","m","s">>,
        <<"P","y","t","h","o","n">>,
        <<"G","i","t">>,
        <<"S","y","s","t","e","m"," ","D","e","s","i","g","n">> >>,
     why |-> <<"Strong analytical thinking", "Enjoys building things",
               "High demand across industries">>],
    [career |-> "Data Scientist",
     skills |-> <<
        <<"S","t","a","t","i","s","t","i","c","s">>,
        <<"P","y","t","h","o","n">>,
        <<"P","a","n","d","a","s">>,
        <<"M","a","c","h","i","n","e"," ","L","e","a","r","n","i","n","g">>,
        <<"V","i","s","u","a","l","i","z","a","t","i","o","n">> >>,
     why |-> <<"Enjoys working with data", "Curiosity for patterns",
               "Growing AI ecosystem">>],
    [career |-> "UI/UX Designer",
     skills |-> <<
        <<"F","i","g","m","a">>,
        <<"U","s","e","r"," ","R","e","s","e","a","r","c","h">>,
        <<"P","r","o","t","o","t","y","p","i","n","g">>,
        <<"V","i","s","u","a","l"," ","D","e","s","i","g","n">>,
        <<"A","c","c","e","s","s","i","b","i","l","i","t","y">> >>,
     why |-> <<"Creative problem solving", "Empathy for users",
               "Portfolio-driven growth">>],
    [career |-> "Cybersecurity Analyst",
     skills |-> <<
        <<"N","e","t","w","o","r","k"," ","B","a","s","i","c","s">>,
        <<"L","i","n","u","x">>,
        <<"T","h","r","e","a","t"," ","M","o","d","e","l","i","n","g">>,
        <<"S","I","E","M">>,
        <<"S","e","c","u","r","i","t","y","+">> >>,
     why |-> <<"Detail-oriented", "Protective mindset",
               "Rising threats -> demand">>],
    [career |-> "Product Manager",
     skills |-> <<
        <<"C","o","m","m","u","n","i","c","a","t","i","o","n">>,
        <<"R","o","a","d","m","a","p","p","i","n","g">>,
        <<"U","s","e","r"," ","S","t","o","r","i","e","s">>,
        <<"A","n","a","l","y","t","i","c","s">>,
        <<"L","e","a","d","e","r","s","h","i","p">> >>,
     why |-> <<"Cross-functional", "User + business focus",
               "High leverage role">>] >>

\* `career in CAREER_LIBRARY`
InLibrary(career) == \E k \in 1..Len(CAREER_LIBRARY) : CAREER_LIBRARY[k].career = career

\* CAREER_LIBRARY[career]
LibraryEntry(career) ==
    CAREER_LIBRARY[CHOOSE k \in 1..Len(CAREER_LIBRARY) : CAREER_LIBRARY[k].career = career]

------------------------------------------------------------------------------
\* score_careers (src/main.py:174-225)

Tag_code == <<"c","o","d","e">>
Tag_programming == <<"p","r","o","g","r","a","m","m","i","n","g">>
Tag_software == <<"s","o","f","t","w","a","r","e">>
Tag_design == <<"d","e","s","i","g","n">>
Tag_data == <<"d","a","t","a">>
Tag_math == <<"m","a","t","h">>
Tag_security == <<"s","e","c","u","r","i","t","y">>
Tag_network == <<"n","e","t","w","o","r","k">>
Tag_lead == <<"l","e","a","d">>
Tag_business == <<"b","u","s","i","n","e","s","s">>

\* lines 184-198: the interest-based boosts added to base for `career`
InterestBoost(career, interests) ==
      (IF Tag_code \in interests \/ Tag_programming \in interests \/ Tag_software \in interests
       THEN (IF career = "Software Engineer" THEN 25 ELSE 0) ELSE 0)
    + (IF Tag_design \in interests
       THEN (IF career = "UI/UX Designer" THEN 22 ELSE 0) ELSE 0)
    + (IF Tag_data \in interests \/ Tag_math \in interests
       THEN (IF career = "Data Scientist" THEN 24 ELSE 0) ELSE 0)
    + (IF Tag_security \in interests \/ Tag_network \in interests
       THEN (IF career = "Cybersecurity Analyst" THEN 20 ELSE 0) ELSE 0)
    + (IF Tag_lead \in interests \/ Tag_business \in interests
       THEN (IF career = "Product Manager" THEN 18 ELSE 0) ELSE 0)

\* line 201: len(set([s.lower() for s in meta["skills"]]).intersection(skills))
SkillOverlap(meta_skills, skills) == Cardinality(LowerSet(meta_skills) \cap skills)

\* line 202: min(overlap * 6, 18)
OverlapBoost(overlap) == Min(overlap * 6, 18)

DivisorUnguarded(answers) == Len(answers)

\* line 178: max(len(payload.personality_answers), 1)
Divisor(answers) == Max(Len(answers), 1)

\* int(x) of the rational num/den (den > 0): truncation toward zero
TruncToInt(num, den) == IF num >= 0 THEN num \div den ELSE -((-num) \div den)

PersonalityTiltFloor(total, divisor) == (4 * (total - 3 * divisor)) \div divisor

\* line 205: int((personality - 3) * 4) with personality = total / divisor.
\* (total/divisor - 3) * 4 = 4 * (total - 3 * divisor) / divisor
PersonalityTilt(total, divisor) == TruncToInt(4 * (total - 3 * divisor), divisor)

ClampUpperOnly(base) == Min(97, base)

\* line 206: max(1, min(97, base))
Clamp(base) == Max(1, Min(97, base))

RECURSIVE SkillGapCaseSensitive(_, _)
SkillGapCaseSensitive(meta_skills, skills) ==
    IF meta_skills = <<>> THEN <<>>
    ELSE (IF Head(meta_skills) \notin skills THEN <<Head(meta_skills)>> ELSE <<>>)
         \o SkillGapCaseSensitive(Tail(meta_skills), skills)

RECURSIVE SkillGap(_, _)
\* line 209: [s for s in meta["skills"] if s.lower() not in skills]
SkillGap(meta_skills, skills) ==
    IF meta_skills = <<>> THEN <<>>
    ELSE (IF lower(Head(meta_skills)) \notin skills THEN <<Head(meta_skills)>> ELSE <<>>)
         \o SkillGap(Tail(meta_skills), skills)

\* line 217: list(skills)[:5], skills being the set of lowercased submission skills
Strengths(submitted_skills, seed) == Take(ListOfLowerSet(submitted_skills, seed), 5)

\* lines 182-221: the CareerMatch built for one catalog entry
BuildMatch(entry, p, total, divisor, seed) ==
    LET interests == LowerSet(p.interests)
        skills    == LowerSet(p.skills)
        base      == Clamp(50 + InterestBoost(entry.career, interests)
                              + OverlapBoost(SkillOverlap(entry.skills, skills))
                              + PersonalityTilt(total, divisor))
    IN  [career          |-> entry.career,
         match_percent   |-> base,
         why_match       |-> entry.why,
         strengths       |-> Strengths(p.skills, seed),
         skill_gap       |-> SkillGap(entry.skills, skills),
         salary_forecast |-> [entry |-> 4, mid |-> 12, senior |-> 30],
         demand_trends   |-> [current_index |-> base, trend_6m |-> "+12%",
                              regions |-> <<"India", "US", "Remote">>]]

RECURSIVE InsertDescending(_, _)
\* m goes after every element whose match_percent is >= its own
InsertDescending(sorted, m) ==
    IF sorted = <<>> THEN <<m>>
    ELSE IF Head(sorted).match_percent >= m.match_percent
         THEN <<Head(sorted)>> \o InsertDescending(Tail(sorted), m)
         ELSE <<m>> \o sorted

RECURSIVE InsertAscending(_, _)
InsertAscending(sorted, m) ==
    IF sorted = <<>> THEN <<m>>
    ELSE IF Head(sorted).match_percent <= m.match_percent
         THEN <<Head(sorted)>> \o InsertAscending(Tail(sorted), m)
         ELSE <<m>> \o sorted

RECURSIVE SortAscending(_)
SortAscending(results) ==
    IF results = <<>> THEN <<>>
    ELSE InsertAscending(SortAscending(SubSeq(results, 1, Len(results) - 1)),
                         results[Len(results)])

Reverse(xs) == [i \in 1..Len(xs) |-> xs[Len(xs) + 1 - i]]

SortAscendingReversed(results) == Reverse(SortAscending(results))

RECURSIVE SortResults(_)
\* line 224: results.sort(key=lambda m: m.match_percent, reverse=True); list.sort is
\* stable and reverse=True keeps the original order of equal keys
SortResults(results) ==
    IF results = <<>> THEN <<>>
    ELSE InsertDescending(SortResults(SubSeq(results, 1, Len(results) - 1)),
                          results[Len(results)])

\* lines 178 and 205: total / divisor is an int / int true division, which raises
\* OverflowError when the quotient is beyond the float range, and int() raises it
\* when (personality - 3) * 4 is infinite.  With the terms other than 10**400
\* small and the list short, either happens exactly when the sum holds a
\* 10**400 term.
FloatOverflows(total, divisor) == total.huge # 0

\* score_careers(payload) in a process whose hash seed is `seed`
score_careers(p, seed) ==
    LET total   == Sum(p.personality_answers)
        divisor == Divisor(p.personality_answers)
    IN  IF divisor = 0 THEN Raise("ZeroDivisionError")
        ELSE IF FloatOverflows(total, divisor) THEN Raise("OverflowError")
        ELSE LET results == [k \in 1..Len(CAREER_LIBRARY) |->
                                BuildMatch(CAREER_LIBRARY[k], p, total.small, divisor, seed)]
             IN  Ok(Take(SortResults(results), 5))

------------------------------------------------------------------------------
\* The template store: the "careertemplate" collection behind `db`.  The database
\* module is not part of the sources; the collection follows the store interface
\* (find by career name; upsert keyed by career name, last write wins).
\* db.connected = FALSE stands for `db is None`.

NoDb == [connected |-> FALSE, careertemplate |-> <<>>]

EmptyDb == [connected |-> TRUE, careertemplate |-> <<>>]

\* a missing document (None); `if template:` is false exactly for it
NoDocument == <<>>

IsTruthy(doc) == DOMAIN doc # {}

\* collection.find_one({"career": career}): the first matching document, or None
find_one(collection, career) ==
    IF \E i \in 1..Len(collection) : collection[i].career = career
    THEN collection[CHOOSE i \in 1..Len(collection) :
                        /\ collection[i].career = career
                        /\ \A j \in 1..(i - 1) : collection[j].career # career]
    ELSE NoDocument

\* collection.update_one({"career": career}, {"$set": fields}, upsert=True)
update_one_upsert(collection, career, fields) ==
    IF \E i \in 1..Len(collection) : collection[i].career = career
    THEN LET i == CHOOSE k \in 1..Len(collection) :
                        /\ collection[k].career = career
                        /\ \A j \in 1..(k - 1) : collection[j].career # career
         IN  [collection EXCEPT ![i] = fields]
    ELSE Append(collection, fields)

------------------------------------------------------------------------------
\* generate_roadmap (src/main.py:245-267)

\* lines 257-263; the first two labels are spelled with an en dash (U+2013) in the source
DefaultRoadmap == <<
    [stage |-> "Classes 8-10",
     items |-> <<"Math foundations", "Intro to CS", "Logic puzzles", "Build small projects">>],
    [stage |-> "Classes 11-12",
     items |-> <<"Choose PCM", "Python + DSA basics", "Hackathons", "Git + GitHub">>],
    [stage |-> "Graduation",
     items |-> <<"Data Structures & Algorithms", "Internship", "System Design basics",
                 "Open Source">>],
    [stage |-> "Certifications",
     items |-> <<"Coursera Specialization", "AWS Cloud Practitioner", "Security basics">>],
    [stage |-> "Portfolio",
     items |-> <<"3-5 polished projects", "README docs", "Case studies", "Personal website">>] >>

\* line 265
DefaultActions ==
    <<"Complete DSA 150", "Build 2 real-world projects", "Internship hunt", "Leetcode 100">>

\* line 264
DefaultSummary(career) == "A clear, stage-wise pathway to become a " \o career \o "."

DefaultRequiredSkillsNoFallback(career) ==
    IF InLibrary(career) THEN LibraryEntry(career).skills ELSE <<>>

\* line 256: CAREER_LIBRARY.get(career, CAREER_LIBRARY["Software Engineer"])["skills"]
DefaultRequiredSkills(career) ==
    IF InLibrary(career) THEN LibraryEntry(career).skills
    ELSE LibraryEntry("Software Engineer").skills

TemplateActionsWrongKey(template) == Get(template, "actions", <<>>)

\* line 254: template.get("default_actions", [])
TemplateActions(template) == Get(template, "default_actions", <<>>)

generate_roadmap(data) ==
    LET career   == Get(data, "career", "Software Engineer")
        template == IF db.connected THEN find_one(db.careertemplate, career)
                    ELSE NoDocument
    IN  IF IsTruthy(template)
        THEN Ok([career          |-> career,
                 summary         |-> Get(template, "summary", "Roadmap for " \o career),
                 required_skills |-> Get(template, "required_skills", <<>>),
                 roadmap         |-> Get(template, "roadmap", <<>>),
                 actions         |-> TemplateActions(template)])
        ELSE Ok([career          |-> career,
                 summary         |-> DefaultSummary(career),
                 required_skills |-> DefaultRequiredSkills(career),
                 roadmap         |-> DefaultRoadmap,
                 actions         |-> DefaultActions])

------------------------------------------------------------------------------
\* Inputs

SeqsUpTo(S, n) == UNION {[1..k -> S] : k \in 0..n}

InterestInputs == {
    <<>>,
    <<<<"c","o","d","e">>>>, <<<<"P","r","o","g","r","a","m","m","i","n","g">>>>, <<<<"s","o","f","t","w","a","r","e">>>>, <<<<"D","e","s","i","g","n">>>>, <<<<"d","a","t","a">>>>,
    <<<<"M","A","T","H">>>>, <<<<"s","e","c","u","r","i","t","y">>>>, <<<<"n","e","t","w","o","r","k">>>>, <<<<"L","E","A","D">>>>, <<<<"b","u","s","i","n","e","s","s">>>>,
    <<<<"a","r","t">>>>, <<<<"c","o","d","e","r">>>>,
    <<<<"c","o","d","e">>, <<"d","a","t","a">>>>,
    <<<<"D","e","s","i","g","n">>, <<"L","E","A","D">>, <<"s","e","c","u","r","i","t","y">>>> }

SkillPool == {<<"P","y","t","h","o","n">>, <<"g","i","t">>}

\* a skill given twice in two casings; five Software Engineer skills in other
\* casings; four Data Scientist skills; six distinct skills
SkillScenarios == {
    <<<<"p","y","t","h","o","n">>, <<"g","i","t">>>>,
    <<<<"p","y","t","h","o","n">>, <<"P","y","t","h","o","n">>, <<"G","I","T">>>>,
    <<<<"D","A","T","A"," ","S","T","R","U","C","T","U","R","E","S">>, <<"a","l","g","o","r","i","t","h","m","s">>, <<"P","Y","T","H","O","N">>, <<"G","I","T">>, <<"s","y","s","t","e","m"," ","d","e","s","i","g","n">>>>,
    <<<<"s","t","a","t","i","s","t","i","c","s">>, <<"P","y","t","h","o","n">>, <<"p","a","n","d","a","s">>, <<"M","a","c","h","i","n","e"," ","L","e","a","r","n","i","n","g">>>>,
    <<<<"F","i","g","m","a">>, <<"L","i","n","u","x">>, <<"S","I","E","M">>, <<"A","n","a","l","y","t","i","c","s">>, <<"P","a","n","d","a","s">>, <<"G","i","t">>>> }

SkillInputs == SeqsUpTo(SkillPool, MaxSkills) \cup SkillScenarios

AnswerValues == {PyInt(1), PyInt(5)}

\* the specification's example; answers outside 1..5; an answer beyond the float range
AnswerScenarios == {Ints(<<4, 4, 5>>), Ints(<<-20>>), Ints(<<0, 9>>), <<TenPow400>>}

AnswerInputs == SeqsUpTo(AnswerValues, MaxAnswers) \cup AnswerScenarios

\* AssessmentSubmission (src/schemas.py:35-42), the fields score_careers reads
Submissions ==
    [interests : InterestInputs, skills : SkillInputs, personality_answers : AnswerInputs]

Scenarios == {
    [interests |-> <<<<"c","o","d","e">>, <<"d","a","t","a">>>>, skills |-> <<<<"p","y","t","h","o","n">>, <<"g","i","t">>>>,
     personality_answers |-> Ints(<<4, 4, 5>>)],
    [interests |-> <<>>, skills |-> <<<<"P","y","t","h","o","n">>>>, personality_answers |-> <<>>],
    [interests |-> <<<<"L","E","A","D">>>>, skills |-> <<>>, personality_answers |-> Ints(<<-20>>)],
    [interests |-> <<<<"D","e","s","i","g","n">>>>,
     skills |-> <<<<"D","A","T","A"," ","S","T","R","U","C","T","U","R","E","S">>, <<"a","l","g","o","r","i","t","h","m","s">>, <<"P","Y","T","H","O","N">>, <<"G","I","T">>, <<"s","y","s","t","e","m"," ","d","e","s","i","g","n">>>>,
     personality_answers |-> Ints(<<5>>)] }

\* CareerTemplate (src/schemas.py:60-66)
Template(career, variant) ==
    [career          |-> career,
     summary         |-> "Curated " \o variant \o " path for " \o career,
     required_skills |-> IF variant = "A" THEN <<<<"R","u","s","t">>, <<"G","i","t">>>> ELSE <<<<"G","o">>>>,
     roadmap         |-> IF variant = "A"
                         THEN <<[stage |-> "Year 2", items |-> <<"Ship a service">>],
                                [stage |-> "Year 1", items |-> <<"Learn the basics">>]>>
                         ELSE <<[stage |-> "Bootcamp", items |-> <<"Twelve weeks">>]>>,
     default_actions |-> IF variant = "A" THEN <<"Read the handbook">>
                         ELSE <<"Find a mentor", "Join a club">>,
     prompts         |-> None]

TemplateCareers == {"Software Engineer", "Game Designer"}

TemplateInputs == {Template(c, v) : c \in TemplateCareers, v \in {"A", "B"}}

\* request bodies of /api/roadmap: with and without a "career" key
DataInputs ==
    {[career |-> c] : c \in {"Software Engineer", "Data Scientist", "Game Designer",
                             "Nonexistent Career"}}
    \cup {[language |-> "en"]}

NoRequest == [none |-> TRUE]

------------------------------------------------------------------------------
\* State machine

\* Process start: the catalog literal is bound, the database handle is either
\* None or a connection, the hash seed is drawn.
InitProcess ==
    /\ CAREER_LIBRARY = CareerLibraryDef
    /\ hashSeed \in HashSeeds
    /\ lastOp = "start"
    /\ request = NoRequest
    /\ response = NoResponse

Init ==
    /\ InitProcess
    /\ db \in {NoDb, EmptyDb}
    /\ upserted = [c \in TemplateCareers |-> NoDocument]
    /\ payload \in Scenarios

\* score_careers on every submission of Submissions without a database, and on the
\* scenarios with a store that already holds a template
InitScore ==
    /\ InitProcess
    /\ \/ /\ db = NoDb
          /\ upserted = [c \in TemplateCareers |-> NoDocument]
          /\ payload \in Submissions
       \/ /\ db = [connected |-> TRUE,
                   careertemplate |-> <<Template("Software Engineer", "A")>>]
          /\ upserted = [c \in TemplateCareers |->
                            IF c = "Software Engineer" THEN Template(c, "A")
                            ELSE NoDocument]
          /\ payload \in Scenarios

\* a call score_careers(payload)
ScoreCareers ==
    /\ lastOp' = "score"
    /\ request' = NoRequest
    /\ response' = score_careers(payload, hashSeed)
    /\ UNCHANGED <<CAREER_LIBRARY, db, hashSeed, payload, upserted>>

GenerateRoadmapCaching ==
    \E data \in DataInputs :
        LET career == Get(data, "career", "Software Engineer") IN
        /\ lastOp' = "roadmap"
        /\ request' = data
        /\ response' = generate_roadmap(data)
        /\ db' = IF db.connected /\ ~IsTruthy(find_one(db.careertemplate, career))
                 THEN [db EXCEPT !.careertemplate =
                          Append(@, [career |-> career, summary |-> DefaultSummary(career)])]
                 ELSE db
        /\ UNCHANGED <<CAREER_LIBRARY, hashSeed, payload, upserted>>

\* POST /api/roadmap
GenerateRoadmap ==
    \E data \in DataInputs :
        /\ lastOp' = "roadmap"
        /\ request' = data
        /\ response' = generate_roadmap(data)
        /\ UNCHANGED <<CAREER_LIBRARY, db, hashSeed, payload, upserted>>

\* POST /api/admin/templates (src/main.py:321-324); db["careertemplate"] on a None
\* handle raises TypeError
UpsertTemplate ==
    \E tpl \in TemplateInputs :
        /\ lastOp' = "upsert"
        /\ request' = tpl
        /\ IF db.connected
           THEN /\ db' = [db EXCEPT !.careertemplate =
                             update_one_upsert(@, tpl.career, tpl)]
                /\ upserted' = [upserted EXCEPT ![tpl.career] = tpl]
                /\ response' = Ok([ok |-> TRUE])
           ELSE /\ response' = Raise("TypeError")
                /\ UNCHANGED <<db, upserted>>
        /\ UNCHANGED <<CAREER_LIBRARY, hashSeed, payload>>

\* The process is started again (or another worker process serves the next
\* request): the module is loaded afresh and a new hash seed is drawn; the
\* database, being external, keeps its contents.
Restart ==
    /\ CAREER_LIBRARY' = CareerLibraryDef
    /\ hashSeed' \in HashSeeds
    /\ UNCHANGED <<db, payload, lastOp, request, response, upserted>>

Next == ScoreCareers \/ GenerateRoadmap \/ UpsertTemplate \/ Restart

Spec == Init /\ [][Next]_vars

NextScore == ScoreCareers \/ Restart

SpecScore == InitScore /\ [][NextScore]_vars

------------------------------------------------------------------------------
\* The statements checked, written from the specification's wording and
\* independently of the operators above.

ScoreReturned == lastOp = "score" /\ response.status = "ok"

CatalogOrder == <<"Software Engineer", "Data Scientist", "UI/UX Designer",
                  "Cybersecurity Analyst", "Product Manager">>

CatalogRank(career) == CHOOSE k \in 1..Len(CatalogOrder) : CatalogOrder[k] = career

CatalogSkills(career) ==
    CareerLibraryDef[CHOOSE k \in 1..Len(CareerLibraryDef) :
                        CareerLibraryDef[k].career = career].skills

\* the rule table: career -> trigger tags -> bonus
BonusRules == <<
    [career |-> "Software Engineer", bonus |-> 25,
     tags |-> {<<"c","o","d","e">>, <<"p","r","o","g","r","a","m","m","i","n","g">>, <<"s","o","f","t","w","a","r","e">>}],
    [career |-> "UI/UX Designer", bonus |-> 22, tags |-> {<<"d","e","s","i","g","n">>}],
    [career |-> "Data Scientist", bonus |-> 24, tags |-> {<<"d","a","t","a">>, <<"m","a","t","h">>}],
    [career |-> "Cybersecurity Analyst", bonus |-> 20, tags |-> {<<"s","e","c","u","r","i","t","y">>, <<"n","e","t","w","o","r","k">>}],
    [career |-> "Product Manager", bonus |-> 18, tags |-> {<<"l","e","a","d">>, <<"b","u","s","i","n","e","s","s">>}] >>

ExpectedBonus(career, p) ==
    LET rule == BonusRules[CHOOSE k \in 1..Len(BonusRules) : BonusRules[k].career = career]
    IN  IF \E i \in 1..Len(p.interests) : lower(p.interests[i]) \in rule.tags
        THEN rule.bonus ELSE 0

\* the submission holds skill s, compared case-insensitively
HasSkill(p, s) == \E j \in 1..Len(p.skills) : lower(p.skills[j]) = lower(s)

ExpectedOverlap(career, p) ==
    Cardinality({k \in 1..Len(CatalogSkills(career)) : HasSkill(p, CatalogSkills(career)[k])})

\* (avg - 3) * 4 truncated toward zero, avg = sum / max(len, 1): the integer t
\* nearest to zero side of the exact quotient q = 4 * (sum - 3n) / n
ExpectedTilt(p) ==
    LET n   == IF Len(p.personality_answers) = 0 THEN 1 ELSE Len(p.personality_answers)
        num == 4 * (Sum(p.personality_answers).small - 3 * n)
    IN  CHOOSE t \in -100..100 :
            IF num >= 0 THEN t * n <= num /\ num < (t + 1) * n
            ELSE (t - 1) * n < num /\ num <= t * n

ClampTo(x, lo, hi) == IF x < lo THEN lo ELSE IF x > hi THEN hi ELSE x

ExpectedPercent(career, p, tilt) ==
    LET capped == IF 6 * ExpectedOverlap(career, p) > 18 THEN 18
                  ELSE 6 * ExpectedOverlap(career, p)
    IN  ClampTo(50 + ExpectedBonus(career, p) + capped + tilt, 1, 97)

PercentOf(career) ==
    response.body[CHOOSE i \in 1..Len(response.body) :
                      response.body[i].career = career].match_percent

ExamplePayload ==
    [interests |-> <<<<"c","o","d","e">>, <<"d","a","t","a">>>>, skills |-> <<<<"p","y","t","h","o","n">>, <<"g","i","t">>>>,
     personality_answers |-> Ints(<<4, 4, 5>>)]

SoftwareEngineerCover ==
    <<<<"D","A","T","A"," ","S","T","R","U","C","T","U","R","E","S">>, <<"a","l","g","o","r","i","t","h","m","s">>, <<"P","Y","T","H","O","N">>, <<"G","I","T">>, <<"s","y","s","t","e","m"," ","d","e","s","i","g","n">>>>

\* the five matches, one per catalog profile, each in [1,97]
FiveMatchesInRange ==
    /\ response.status = "ok"
    /\ Len(response.body) = 5
    /\ \A k \in 1..Len(CatalogOrder) :
           Cardinality({i \in 1..Len(response.body) :
                           response.body[i].career = CatalogOrder[k]}) = 1
    /\ \A i \in 1..Len(response.body) : response.body[i].match_percent \in 1..97

\* C1 as stated: whatever the submission (integers outside 1..5 included) and the
\* store hold, score_careers returns exactly 5 matches, one per catalog profile,
\* each with match_percent an integer in [1,97].
C1_AnySubmission == lastOp = "score" => FiveMatchesInRange

\* C1 as amended: the same, for every submission whose answers stay within the
\* float range (no answer of the size of 10**400).
C1_WithinFloatRange ==
    (/\ lastOp = "score"
     /\ \A i \in 1..Len(payload.personality_answers) :
            payload.personality_answers[i].huge = 0) => FiveMatchesInRange

\* out-of-range answers drive every score to the lower clamp, with a populated store
C1_Witness ==
    /\ ScoreReturned
    /\ payload.personality_answers = Ints(<<-20>>)
    /\ db.connected /\ db.careertemplate # <<>>
    /\ \A i \in 1..Len(response.body) : response.body[i].match_percent = 1

\* C2: every match_percent equals clamp(50 + the profile's own interest bonus
\* + min(6 * overlap, 18) + trunc_toward_zero((avg - 3) * 4), 1, 97); the example
\* submission gives Software Engineer 92 and Data Scientist 85.
C2_ScoreFormula ==
    ScoreReturned =>
        /\ LET tilt == ExpectedTilt(payload)
           IN  \A i \in 1..Len(response.body) :
                   response.body[i].match_percent
                     = ExpectedPercent(response.body[i].career, payload, tilt)
        /\ payload = ExamplePayload =>
               /\ PercentOf("Software Engineer") = 92
               /\ PercentOf("Data Scientist") = 85

\* the example submission has been scored
C2_Witness ==
    /\ ScoreReturned
    /\ payload = ExamplePayload
    /\ PercentOf("Software Engineer") = 92
    /\ PercentOf("Data Scientist") = 85

\* C3: the returned list is sorted by match_percent descending, and matches with
\* equal match_percent appear in catalog order.
C3_SortedStable ==
    ScoreReturned =>
        \A i, j \in 1..Len(response.body) :
            i < j =>
                \/ response.body[i].match_percent > response.body[j].match_percent
                \/ /\ response.body[i].match_percent = response.body[j].match_percent
                   /\ CatalogRank(response.body[i].career) < CatalogRank(response.body[j].career)

\* a result that the sort reordered and that holds a tie
C3_Witness ==
    /\ ScoreReturned
    /\ response.body[1].career = "Product Manager"
    /\ response.body[2].match_percent = response.body[3].match_percent
    /\ response.body[1].match_percent > response.body[2].match_percent

\* the a-th smallest element of a set of indices
NthIndex(S, a) == CHOOSE k \in S : Cardinality({m \in S : m <= k}) = a

\* C4: each match's skill_gap is exactly the profile's required skills the
\* submission lacks (case-insensitively), in profile order and original casing; it
\* never holds a skill the submission has, and is empty when the submission covers
\* the profile's whole skill set.
C4_SkillGap ==
    ScoreReturned =>
        \A i \in 1..Len(response.body) :
            LET required == CatalogSkills(response.body[i].career)
                gap      == response.body[i].skill_gap
                lacking  == {k \in 1..Len(required) : ~HasSkill(payload, required[k])}
            IN  /\ Len(gap) = Cardinality(lacking)
                /\ \A a \in 1..Len(gap) : gap[a] = required[NthIndex(lacking, a)]
                /\ \A a \in 1..Len(gap) : ~HasSkill(payload, gap[a])
                /\ (\A k \in 1..Len(required) : HasSkill(payload, required[k])) => gap = <<>>

\* the submission covers the Software Engineer skills in other casings: that gap is
\* empty while another profile's gap is its whole skill list
C4_Witness ==
    /\ ScoreReturned
    /\ payload.skills = SoftwareEngineerCover
    /\ \E i \in 1..Len(response.body) :
           response.body[i].career = "Software Engineer" /\ response.body[i].skill_gap = <<>>
    /\ \E i \in 1..Len(response.body) :
           /\ response.body[i].career = "Data Scientist"
           /\ Len(response.body[i].skill_gap) = 4

\* C7: the strengths of every match are the first 5 entries of the submission's
\* skills, in the order and casing in which they were submitted.
C7_StrengthsAsSubmitted ==
    ScoreReturned =>
        \A i \in 1..Len(response.body) :
            response.body[i].strengths = Take(payload.skills, 5)

\* C8: scoring the identical submission again, the catalog unchanged, yields the
\* identical output in every field and in the same order.
C8_RepeatedScoreIdentical ==
    [][(/\ lastOp = "score"
        /\ lastOp' = "score"
        /\ payload' = payload
        /\ CAREER_LIBRARY' = CAREER_LIBRARY) => response' = response]_vars

\* C9: with no personality answers score_careers raises nothing; the divisor is 1,
\* the average 0, and a tilt of exactly -12 enters every profile's score before the
\* clamp to [1,97].
C9_EmptyAnswers ==
    (lastOp = "score" /\ payload.personality_answers = <<>>) =>
        /\ response.status = "ok"
        /\ Len(response.body) = 5
        /\ \A i \in 1..Len(response.body) :
               response.body[i].match_percent
                 = ExpectedPercent(response.body[i].career, payload, -12)

\* no answers, no interests: an unboosted profile scores 50 - 12
C9_Witness ==
    /\ ScoreReturned
    /\ payload.personality_answers = <<>>
    /\ payload.interests = <<>>
    /\ response.body[5].match_percent = 38

\* the career a roadmap request names ("Software Engineer" when it names none)
RequestedCareer == IF "career" \in DOMAIN request THEN request.career ELSE "Software Engineer"

\* the stored templates for a career
StoredFor(store, career) ==
    {i \in 1..Len(store.careertemplate) : store.careertemplate[i].career = career}

RoadmapReturned == lastOp = "roadmap" /\ response.status = "ok"

\* C5: after any sequence of upserts the store holds at most one template per
\* career name, and a roadmap for a career with a stored template carries exactly
\* the fields of the template last upserted for it (summary, required_skills,
\* roadmap stages, actions = default_actions), none of them a synthesized default.
C5_TemplatePrecedence ==
    /\ \A c \in TemplateCareers : Cardinality(StoredFor(db, c)) <= 1
    /\ (lastOp = "roadmap" /\ StoredFor(db, RequestedCareer) # {}) =>
           LET tpl == upserted[RequestedCareer]
           IN  /\ response.status = "ok"
               /\ response.body = [career          |-> RequestedCareer,
                                   summary         |-> tpl.summary,
                                   required_skills |-> tpl.required_skills,
                                   roadmap         |-> tpl.roadmap,
                                   actions         |-> tpl.default_actions]
               /\ response.body.summary # DefaultSummary(RequestedCareer)
               /\ response.body.roadmap # DefaultRoadmap
               /\ response.body.actions # DefaultActions

\* a roadmap served from the second template written for Software Engineer, with
\* another career's template beside it
C5_Witness ==
    /\ RoadmapReturned
    /\ RequestedCareer = "Software Engineer"
    /\ Len(db.careertemplate) = 2
    /\ db.careertemplate[1].career = "Software Engineer"
    /\ db.careertemplate[2].career = "Game Designer"
    /\ upserted["Software Engineer"] = Template("Software Engineer", "B")
    /\ response.body.actions = <<"Find a mentor", "Join a club">>

\* C6: for a career with no stored template (or no store at all) generate_roadmap
\* raises nothing and returns the catalog's skills for that name, or the Software
\* Engineer skills for a name outside the catalog, the 5 stages Classes 8-10,
\* Classes 11-12, Graduation, Certifications, Portfolio in that order, and the
\* summary "A clear, stage-wise pathway to become a {career}.".
C6_RoadmapFallback ==
    (lastOp = "roadmap" /\ (~db.connected \/ StoredFor(db, RequestedCareer) = {})) =>
        /\ response.status = "ok"
        /\ response.body.career = RequestedCareer
        /\ response.body.required_skills
             = IF \E k \in 1..Len(CatalogOrder) : CatalogOrder[k] = RequestedCareer
               THEN CatalogSkills(RequestedCareer)
               ELSE CatalogSkills("Software Engineer")
        /\ [k \in 1..Len(response.body.roadmap) |-> response.body.roadmap[k].stage]
             = <<"Classes 8-10", "Classes 11-12", "Graduation", "Certifications",
                 "Portfolio">>
        /\ response.body.summary
             = "A clear, stage-wise pathway to become a " \o RequestedCareer \o "."

\* an unknown career asked of a process without a database
C6_Witness ==
    /\ RoadmapReturned
    /\ request = [career |-> "Nonexistent Career"]
    /\ ~db.connected
    /\ response.body.required_skills = CatalogSkills("Software Engineer")
    /\ response.body.summary = "A clear, stage-wise pathway to become a Nonexistent Career."

\* C10: no step changes the catalog; score_careers and generate_roadmap leave the
\* template store as it is; upsert_template changes only the store entry of its own
\* career name.
C10_Frame ==
    [][/\ CAREER_LIBRARY' = CAREER_LIBRARY
       /\ lastOp' \in {"score", "roadmap"} => db' = db
       /\ lastOp' = "upsert" =>
              /\ db'.connected = db.connected
              /\ \A c \in TemplateCareers :
                     c # request'.career =>
                         {db'.careertemplate[i] : i \in StoredFor(db', c)}
                           = {db.careertemplate[i] : i \in StoredFor(db, c)}]_vars

\* an upsert rewrote one career's template while another career's template is stored
C10_Witness ==
    /\ lastOp = "upsert"
    /\ response.status = "ok"
    /\ request = Template("Game Designer", "B")
    /\ Len(db.careertemplate) = 2
    /\ db.careertemplate[1] = Template("Game Designer", "B")
    /\ db.careertemplate[2] = Template("Software Engineer", "A")

====
